---------------------------- MODULE Spec2Model ----------------------------
(***************************************************************************)
(* Model of kytos/of.flow-manager (main.py): the FlowManager that emits    *)
(* flow-mod and statistics-request messages for the switches of a          *)
(* controller and keeps a per-switch cache of flows (FlowManager.flows)    *)
(* fed by statistics replies, and the Main application that fans the       *)
(* operations out over the known switches.                                 *)
(*                                                                         *)
(* Every handler of main.py is one action.  The variable `last` is the     *)
(* record of the call made by the latest step (its arguments, the          *)
(* exception it raised, the switches for which the per-switch call was     *)
(* started): it is how a property names "the step that was an install".    *)
(***************************************************************************)
EXTENDS Naturals, Sequences, FiniteSets

VARIABLES
    switches,   \* controller.switches: the dpids the controller knows
    flows,      \* FlowManager.flows: dict dpid -> entry
    msg_out,    \* controller.buffers.msg_out: the outbound queue
    loop,       \* the loop over the switches that is under way (SpecFanout)
    handling,   \* the handle_flow_stats_reply call under way (SpecThreads)
    last        \* the latest call and its outcome

vars == <<switches, flows, msg_out, loop, handling, last>>

-----------------------------------------------------------------------------
(* Bounds of the model. *)

\* the outbound queue holds at most MaxOut events
MaxOut == 2
\* a statistics reply carries at most MaxBody flow-statistics records
MaxBody == 2
\* the lists of the store hold at most MaxEntry elements in all
MaxEntry == 1

DPIDS == {"D1", "D2"}
FlowIds == {"F7", "F8"}

\* the dpid argument left out (dpid=None): the fan-out form of an operation
NoDpid == "None"

-----------------------------------------------------------------------------
(* Data. *)

\* a Flow (kyco.core.flow.Flow): identifier and match
Flow == [id : FlowIds, match : {"m"}]

\* one flow-statistics record of a reply body: the flow's fields and counters
FlowStats == [id : FlowIds, match : {"m"}, packet_count : {0}]

\* Flow.from_flow_stats: the Flow of a statistics record (counters dropped)
from_flow_stats(flow_stat) == [id |-> flow_stat.id, match |-> flow_stat.match]

\* sequences over S of length at most n
SeqUpTo(S, n) == UNION {[1..k -> S] : k \in 0..n}

\* switch.connection of the switch with this dpid
connection(dpid) == [switch |-> dpid]

\* Flow.as_flow_mod(command): the flow-mod message of a flow
as_flow_mod(flow, command) ==
    [type |-> "flow_mod", command |-> command, body_type |-> "",
     match |-> flow.match, flow |-> <<flow>>]

\* Match(): the match with every field a wildcard
Match == "all"

\* StatsRequest() with body_type OFPST_FLOW and match Match() (all flows)
StatsRequest ==
    [type |-> "stats_request", command |-> "", body_type |-> "OFPST_FLOW",
     match |-> Match, flow |-> <<>>]

\* KycoEvent(name, content={'destination': ..., 'message': ...})
KycoEvent(name, destination, message) ==
    [name |-> name, destination |-> destination, message |-> message]

\* an element of a Python list of the store: a Flow object, or a list of Flow
\* objects (what _get_flows returns)
FlowElement(flow) == [kind |-> "Flow", items |-> <<flow>>]
ListElement(l) == [kind |-> "list", items |-> l]

\* a store entry: None, or a Python list
NoneEntry == [isNone |-> TRUE, list |-> <<>>]
ListEntry(l) == [isNone |-> FALSE, list |-> l]

\* the result of a call: the exception raised ("" for none), the events put
\* on msg_out, the dpids for which the per-switch call was started, the store
\* after the call
Result(error, out, attempted, store) ==
    [error |-> error, out |-> out, attempted |-> attempted, store |-> store]

\* the record of a call: operation, dpid argument (NoDpid for the fan-out
\* form), flow id argument, flows involved, body type of a reply, outcome,
\* value returned (retrieve_flows sets it)
Call(op, dpid, flow_id, fls, body_type, res) ==
    [op |-> op, dpid |-> dpid, flow_id |-> flow_id, flows |-> fls,
     body_type |-> body_type, error |-> res.error, attempted |-> res.attempted,
     returned |-> <<>>]

\* the orders in which a loop over the dpids of S can visit them
Orders(S) ==
    {o \in [1..Cardinality(S) -> S] : \A i, j \in DOMAIN o : i # j => o[i] # o[j]}

\* no loop under way
\* no handle_flow_stats_reply call is under way
NotHandling == [active |-> FALSE, switch |-> NoDpid, flows |-> <<>>,
                before |-> <<>>, line |-> ""]

Idle == [active |-> FALSE, op |-> "", flow_id |-> "", flows |-> <<>>,
         order |-> <<>>, remaining |-> <<>>, attempted |-> <<>>]

-----------------------------------------------------------------------------
(* FlowManager: the per-switch operations.  Each is the Result of one call *)
(* in the current state.                                                   *)

\* controller.get_switch_by_dpid(dpid): the lookup succeeds for the dpids the
\* controller knows and fails for any other
get_switch_by_dpid(dpid) == dpid \in switches

\* install_new_flow as it would be if it also recorded the flow in the store
install_new_flow_caching(flow, dpid) ==
    IF ~get_switch_by_dpid(dpid)
    THEN Result("UnknownSwitchError", <<>>, <<dpid>>, flows)
    ELSE Result("",
                <<KycoEvent("kytos/of.flow-manager.messages.out.ofpt_flow_mod",
                            connection(dpid),
                            as_flow_mod(flow, "OFPFC_ADD"))>>,
                <<dpid>>,
                [d \in DOMAIN flows \cup {dpid} |->
                    IF d = dpid THEN ListEntry(<<FlowElement(flow)>>)
                    ELSE flows[d]])

\* install_new_flow as it would be if it addressed its event to the connection
\* of another known switch
install_new_flow_misaddressed(flow, dpid) ==
    IF ~get_switch_by_dpid(dpid)
    THEN Result("UnknownSwitchError", <<>>, <<dpid>>, flows)
    ELSE LET other == IF switches \ {dpid} # {}
                      THEN CHOOSE d \in switches \ {dpid} : TRUE
                      ELSE dpid
         IN  Result("",
                    <<KycoEvent("kytos/of.flow-manager.messages.out.ofpt_flow_mod",
                                connection(other),
                                as_flow_mod(flow, "OFPFC_ADD"))>>,
                    <<dpid>>, flows)

\* FlowManager.install_new_flow(flow, dpid)
install_new_flow(flow, dpid) ==
    IF ~get_switch_by_dpid(dpid)
    THEN Result("UnknownSwitchError", <<>>, <<dpid>>, flows)
    ELSE Result("",
                <<KycoEvent("kytos/of.flow-manager.messages.out.ofpt_flow_mod",
                            connection(dpid),
                            as_flow_mod(flow, "OFPFC_ADD"))>>,
                <<dpid>>, flows)

\* dump_flows as it would be if it did not resolve the switch before emitting
dump_flows_unresolved(dpid) ==
    Result("",
           <<KycoEvent("kytos/of.flow-manager.messages.out.ofpt_stats_request",
                       connection(dpid),
                       StatsRequest)>>,
           <<dpid>>, flows)

\* dump_flows as it would be if it put its event on the queue twice
dump_flows_twice(dpid) ==
    IF ~get_switch_by_dpid(dpid)
    THEN Result("UnknownSwitchError", <<>>, <<dpid>>, flows)
    ELSE LET event_out ==
                KycoEvent("kytos/of.flow-manager.messages.out.ofpt_stats_request",
                          connection(dpid), StatsRequest)
         IN  Result("", <<event_out, event_out>>, <<dpid>>, flows)

\* dump_flows as it would be if it skipped a switch that already has a request
\* on the queue
dump_flows_if_none_pending(dpid) ==
    IF ~get_switch_by_dpid(dpid)
    THEN Result("UnknownSwitchError", <<>>, <<dpid>>, flows)
    ELSE LET event_out ==
                KycoEvent("kytos/of.flow-manager.messages.out.ofpt_stats_request",
                          connection(dpid), StatsRequest)
         IN  IF \E i \in DOMAIN msg_out : msg_out[i] = event_out
             THEN Result("", <<>>, <<dpid>>, flows)
             ELSE Result("", <<event_out>>, <<dpid>>, flows)

\* FlowManager.dump_flows(dpid)
dump_flows(dpid) ==
    IF ~get_switch_by_dpid(dpid)
    THEN Result("UnknownSwitchError", <<>>, <<dpid>>, flows)
    ELSE Result("",
                <<KycoEvent("kytos/of.flow-manager.messages.out.ofpt_stats_request",
                            connection(dpid),
                            StatsRequest)>>,
                <<dpid>>, flows)

\* clear_flows as it would be if it dropped the entry of the switch it clears
clear_flows_dropping(dpid) ==
    IF ~get_switch_by_dpid(dpid)
    THEN Result("UnknownSwitchError", <<>>, <<dpid>>, flows)
    ELSE IF DOMAIN flows = {}
         THEN Result("", <<>>, <<dpid>>, flows)
         ELSE Result("AttributeError", <<>>, <<dpid>>,
                     [d \in DOMAIN flows \ {dpid} |-> flows[d]])

\* FlowManager.clear_flows(dpid): the loop "for flow in self.flows" visits the
\* keys of the dict, which are dpids; a dpid has no as_flow_mod, so the first
\* iteration raises AttributeError before any event is built
clear_flows(dpid) ==
    IF ~get_switch_by_dpid(dpid)
    THEN Result("UnknownSwitchError", <<>>, <<dpid>>, flows)
    ELSE IF DOMAIN flows = {}
         THEN Result("", <<>>, <<dpid>>, flows)
         ELSE Result("AttributeError", <<>>, <<dpid>>, flows)

\* FlowManager.delete_flow(flow_id, dpid): the same loop over the keys of the
\* dict; a dpid has no attribute id, so the first iteration raises
\* AttributeError whatever flow_id is
delete_flow(flow_id, dpid) ==
    IF ~get_switch_by_dpid(dpid)
    THEN Result("UnknownSwitchError", <<>>, <<dpid>>, flows)
    ELSE IF DOMAIN flows = {}
         THEN Result("", <<>>, <<dpid>>, flows)
         ELSE Result("AttributeError", <<>>, <<dpid>>, flows)

\* FlowManager._get_flows(flow_stats): the Flow of each record, in order
get_flows(flow_stats) ==
    [i \in DOMAIN flow_stats |-> from_flow_stats(flow_stats[i])]

\* handle_flow_stats_reply as it would be without the test of the body type
stats_reply_unfiltered(event) ==
    LET msg == event.message
        switch_dpid == event.switch
    IN  IF switch_dpid \notin DOMAIN flows
        THEN Result("KeyError", <<>>, <<>>, flows)
        ELSE LET entry == IF flows[switch_dpid].isNone
                          THEN <<>>
                          ELSE flows[switch_dpid].list
             IN  Result("", <<>>, <<>>,
                        [flows EXCEPT ![switch_dpid] =
                           ListEntry(Append(entry,
                               ListElement(get_flows(msg.body))))])

\* handle_flow_stats_reply as it would be if it rebuilt the dict with the one
\* entry of the replying switch
stats_reply_rebuilding(event) ==
    LET msg == event.message
        switch_dpid == event.switch
    IN  IF msg.body_type = "OFPST_FLOW"
        THEN IF switch_dpid \notin DOMAIN flows
             THEN Result("KeyError", <<>>, <<>>, flows)
             ELSE LET entry == IF flows[switch_dpid].isNone
                               THEN <<>>
                               ELSE flows[switch_dpid].list
                  IN  Result("", <<>>, <<>>,
                             [d \in {switch_dpid} |->
                                ListEntry(Append(entry,
                                    ListElement(get_flows(msg.body))))])
        ELSE Result("", <<>>, <<>>, flows)

\* FlowManager.handle_flow_stats_reply(event): the exception raised and the
\* store after the call.  self.flows[switch_dpid] raises KeyError when the
\* dict has no such key; otherwise a None entry becomes [] and the decoded
\* list is appended to the entry as one element
stats_reply(event) ==
    LET msg == event.message
        switch_dpid == event.switch
    IN  IF msg.body_type = "OFPST_FLOW"
        THEN IF switch_dpid \notin DOMAIN flows
             THEN Result("KeyError", <<>>, <<>>, flows)
             ELSE LET entry == IF flows[switch_dpid].isNone
                               THEN <<>>
                               ELSE flows[switch_dpid].list
                  IN  Result("", <<>>, <<>>,
                             [flows EXCEPT ![switch_dpid] =
                                ListEntry(Append(entry,
                                    ListElement(get_flows(msg.body))))])
        ELSE Result("", <<>>, <<>>, flows)

-----------------------------------------------------------------------------
(* Main: the loops over the known switches.                                *)

\* the call a loop of Main makes for one switch
per_switch(op, flow_id, fls, dpid) ==
    CASE op = "execute"     -> dump_flows(dpid)
      [] op = "insert_flow" -> install_new_flow(fls[1], dpid)
      [] op = "clear_flows" -> clear_flows(dpid)
      [] op = "delete_flow" -> delete_flow(flow_id, dpid)

\* the loop as it would be if it returned after its first iteration
for_each_first_only(order, op, flow_id, fls) ==
    IF order = <<>>
    THEN Result("", <<>>, <<>>, flows)
    ELSE per_switch(op, flow_id, fls, Head(order))

\* "for switch_dpid in self.controller.switches: call(switch_dpid)", visiting
\* the dpids in the given order: an exception of a call leaves the loop, as
\* no statement of Main catches it
RECURSIVE for_each(_, _, _, _)
for_each(order, op, flow_id, fls) ==
    IF order = <<>>
    THEN Result("", <<>>, <<>>, flows)
    ELSE LET res == per_switch(op, flow_id, fls, Head(order))
         IN  IF res.error # ""
             THEN res
             ELSE LET rest == for_each(Tail(order), op, flow_id, fls)
                  IN  Result(rest.error, res.out \o rest.out,
                             res.attempted \o rest.attempted, rest.store)

\* the effect of a call of Main or the poller on the state: its events go to
\* msg_out
emit(op, dpid, flow_id, fls, res) ==
    /\ Len(msg_out) + Len(res.out) <= MaxOut
    /\ msg_out' = msg_out \o res.out
    /\ flows' = res.store
    /\ last' = Call(op, dpid, flow_id, fls, "", res)
    /\ UNCHANGED <<switches, loop, handling>>

\* the orders a call can visit the switches in: those of the known switches
\* for the fan-out form (dpid is None), no loop otherwise
LoopOrders(dpid) == IF dpid = NoDpid THEN Orders(switches) ELSE {<<>>}

\* "if dpid is not None: call(dpid) else: for switch_dpid in ...: call(...)"
dispatch(order, op, dpid, flow_id, fls) ==
    IF dpid # NoDpid
    THEN per_switch(op, flow_id, fls, dpid)
    ELSE for_each(order, op, flow_id, fls)

\* Main.execute: one tick of the poller
execute ==
    \E order \in LoopOrders(NoDpid) :
        emit("execute", NoDpid, "", <<>>,
             for_each(order, "execute", "", <<>>))

\* Main.insert_flow(dpid), received_flow being Flow.from_json of the request
insert_flow(received_flow, dpid) ==
    \E order \in LoopOrders(dpid) :
        emit("insert_flow", dpid, "", <<received_flow>>,
             dispatch(order, "insert_flow", dpid, "", <<received_flow>>))

\* Main.clear_flows(dpid)
main_clear_flows(dpid) ==
    \E order \in LoopOrders(dpid) :
        emit("clear_flows", dpid, "", <<>>,
             dispatch(order, "clear_flows", dpid, "", <<>>))

\* Main.delete_flow(flow_id, dpid)
main_delete_flow(flow_id, dpid) ==
    \E order \in LoopOrders(dpid) :
        emit("delete_flow", dpid, flow_id, <<>>,
             dispatch(order, "delete_flow", dpid, flow_id, <<>>))

\* a direct call of FlowManager.dump_flows(dpid)
request_dump(dpid) ==
    /\ dpid \in DPIDS
    /\ emit("dump_flows", dpid, "", <<>>, dump_flows(dpid))

\* the value of Main.retrieve_flows(dpid): self.flow_manager.flows[dpid]
\* raises KeyError when the dict has no such key; with no dpid the entries of
\* the dict are collected in the order the loop visits its keys
retrieved(order, dpid) ==
    IF dpid # NoDpid
    THEN IF dpid \notin DOMAIN flows
         THEN [error |-> "KeyError", returned |-> <<>>]
         ELSE [error |-> "", returned |-> <<flows[dpid]>>]
    ELSE [error |-> "", returned |-> [i \in DOMAIN order |-> flows[order[i]]]]

\* Main.retrieve_flows(dpid)
retrieve_flows(dpid) ==
    \E order \in (IF dpid = NoDpid THEN Orders(DOMAIN flows) ELSE {<<>>}) :
        LET res == retrieved(order, dpid)
        IN  /\ last' = [Call("retrieve_flows", dpid, "", <<>>, "",
                              Result(res.error, <<>>, <<>>, flows))
                           EXCEPT !.returned = res.returned]
            /\ UNCHANGED <<switches, flows, msg_out, loop, handling>>

\* the number of elements of the lists of a store
RECURSIVE StoreSize(_, _)
StoreSize(store, keys) ==
    IF keys = {} THEN 0
    ELSE LET d == CHOOSE k \in keys : TRUE
         IN  Len(store[d].list) + StoreSize(store, keys \ {d})

\* the listener of kytos/of.core.messages.in.ofpt_stats_reply
handle_flow_stats_reply(event) ==
    LET res == stats_reply(event)
    IN  /\ StoreSize(res.store, DOMAIN res.store) <= MaxEntry
        /\ flows' = res.store
        /\ msg_out' = msg_out \o res.out
        /\ last' = Call("handle_flow_stats_reply", event.switch, "",
                        get_flows(event.message.body), event.message.body_type,
                        res)
        /\ UNCHANGED <<switches, loop, handling>>

\* the statistics-reply events the controller can deliver
StatsReplies ==
    [message : [body_type : {"OFPST_FLOW"}, body : SeqUpTo(FlowStats, MaxBody)]
               \cup [body_type : {"OFPST_PORT"}, body : {<<>>}],
     switch : DPIDS]

-----------------------------------------------------------------------------
(* The controller: switches come and go.                                   *)

switch_connect(dpid) ==
    /\ dpid \notin switches
    /\ switches' = switches \cup {dpid}
    /\ last' = Call("connect", dpid, "", <<>>, "", Result("", <<>>, <<>>, flows))
    /\ UNCHANGED <<flows, msg_out, loop, handling>>

switch_disconnect(dpid) ==
    /\ dpid \in switches
    /\ switches' = switches \ {dpid}
    /\ last' = Call("disconnect", dpid, "", <<>>, "", Result("", <<>>, <<>>, flows))
    /\ UNCHANGED <<flows, msg_out, loop, handling>>

-----------------------------------------------------------------------------
(* The loops of Main step by step.  The applications of the controller run *)
(* in threads of their own, so a switch can come or go between two         *)
(* iterations of a loop over the switches.  The loop visits the dpids it   *)
(* found when it started; each iteration is one call of the per-switch     *)
(* operation in the state of that moment.                                  *)

\* the loop starts: "for switch_dpid in self.controller.switches"
loop_begin(op, flow_id, fls) ==
    /\ ~loop.active
    /\ \E order \in Orders(switches) :
          loop' = [active |-> TRUE, op |-> op, flow_id |-> flow_id,
                   flows |-> fls, order |-> order, remaining |-> order,
                   attempted |-> <<>>]
    /\ last' = Call("loop_begin", NoDpid, flow_id, fls, "",
                    Result("", <<>>, <<>>, flows))
    /\ UNCHANGED <<switches, flows, msg_out, handling>>

\* one iteration: the call for the next dpid; its exception, if any, leaves
\* the loop and the operation
loop_step ==
    /\ loop.active
    /\ loop.remaining # <<>>
    /\ LET dpid == Head(loop.remaining)
           res == per_switch(loop.op, loop.flow_id, loop.flows, dpid)
       IN  /\ Len(msg_out) + Len(res.out) <= MaxOut
           /\ msg_out' = msg_out \o res.out
           /\ flows' = res.store
           /\ IF res.error # ""
              THEN /\ loop' = [loop EXCEPT !.active = FALSE,
                                           !.attempted = Append(@, dpid)]
                   /\ last' = Call(loop.op, NoDpid, loop.flow_id, loop.flows, "",
                                   Result(res.error, <<>>,
                                          Append(loop.attempted, dpid), flows))
              ELSE /\ loop' = [loop EXCEPT !.remaining = Tail(@),
                                           !.attempted = Append(@, dpid)]
                   /\ last' = Call("loop_step", dpid, loop.flow_id, loop.flows,
                                   "", res)
    /\ UNCHANGED <<switches, handling>>

\* the loop has visited every dpid: the operation returns
loop_end ==
    /\ loop.active
    /\ loop.remaining = <<>>
    /\ loop' = [loop EXCEPT !.active = FALSE]
    /\ last' = Call(loop.op, NoDpid, loop.flow_id, loop.flows, "",
                    Result("", <<>>, loop.attempted, flows))
    /\ UNCHANGED <<switches, flows, msg_out, handling>>

-----------------------------------------------------------------------------
(* The application after setup: FlowManager.__init__ leaves the store an   *)
(* empty dict.                                                             *)

Init ==
    /\ switches = {}
    /\ flows = [d \in {} |-> NoneEntry]
    /\ msg_out = <<>>
    /\ loop = Idle
    /\ handling = NotHandling
    /\ last = Call("setup", NoDpid, "", <<>>, "", Result("", <<>>, <<>>, <<>>))

Next ==
    \/ \E d \in DPIDS : switch_connect(d)
    \/ \E d \in DPIDS : switch_disconnect(d)
    \/ execute
    \/ \E f \in Flow, d \in DPIDS \cup {NoDpid} : insert_flow(f, d)
    \/ \E d \in DPIDS \cup {NoDpid} : main_clear_flows(d)
    \/ \E i \in FlowIds, d \in DPIDS \cup {NoDpid} : main_delete_flow(i, d)
    \/ \E d \in DPIDS : request_dump(d)
    \/ \E d \in DPIDS \cup {NoDpid} : retrieve_flows(d)
    \/ \E e \in StatsReplies : handle_flow_stats_reply(e)

Spec == Init /\ [][Next]_vars

-----------------------------------------------------------------------------
(* The store seeded.  handle_flow_stats_reply tests its entry for None     *)
(* (line 169), the value of an entry made before any reply; nothing in     *)
(* main.py makes one.  SpecSeeded starts the same program with the dict    *)
(* holding a None entry for any set of switches (the empty set included,   *)
(* which is Init), so that the branches of the handler and of the scans    *)
(* that read a non-empty dict are exercised.  Its steps are those of the   *)
(* writer of the store (the reply handler), of its readers (clear and      *)
(* delete) and of the controller.                                          *)

InitSeeded ==
    /\ switches = {}
    /\ flows \in {[d \in S |-> NoneEntry] : S \in SUBSET DPIDS}
    /\ msg_out = <<>>
    /\ loop = Idle
    /\ handling = NotHandling
    /\ last = Call("setup", NoDpid, "", <<>>, "", Result("", <<>>, <<>>, <<>>))

NextSeeded ==
    \/ \E d \in DPIDS : switch_connect(d)
    \/ \E d \in DPIDS : switch_disconnect(d)
    \/ \E d \in DPIDS \cup {NoDpid} : main_clear_flows(d)
    \/ \E i \in FlowIds, d \in DPIDS \cup {NoDpid} : main_delete_flow(i, d)
    \/ \E d \in DPIDS \cup {NoDpid} : retrieve_flows(d)
    \/ \E e \in StatsReplies : handle_flow_stats_reply(e)

SpecSeeded == InitSeeded /\ [][NextSeeded]_vars

-----------------------------------------------------------------------------
(* The reply handler interleaved with a reader.  The listener runs in a    *)
(* thread of its own and the REST endpoint retrieve_flows in another;      *)
(* nothing in main.py locks the dict.  The handler is taken line by line:  *)
(* lines 163-168 decode the body, lines 169-170 test the entry and make it *)
(* an empty list, line 171 appends.                                        *)

\* lines 163-168: the filter and the decoding; a body of another type ends
\* the handler
reply_received(event) ==
    /\ ~handling.active
    /\ IF event.message.body_type = "OFPST_FLOW"
       THEN /\ StoreSize(flows, DOMAIN flows) < MaxEntry
            /\ handling' = [active |-> TRUE, switch |-> event.switch,
                            flows |-> get_flows(event.message.body),
                            before |-> IF event.switch \in DOMAIN flows
                                       THEN <<flows[event.switch]>>
                                       ELSE <<>>,
                            line |-> "169"]
            /\ last' = Call("reply_received", event.switch, "",
                            get_flows(event.message.body),
                            event.message.body_type,
                            Result("", <<>>, <<>>, flows))
       ELSE /\ handling' = handling
            /\ last' = Call("handle_flow_stats_reply", event.switch, "",
                            <<>>, event.message.body_type,
                            Result("", <<>>, <<>>, flows))
    /\ UNCHANGED <<switches, flows, msg_out, loop>>

\* lines 169-170: the lookup raises KeyError and ends the handler, or a None
\* entry becomes the empty list
reply_line_169 ==
    /\ handling.active
    /\ handling.line = "169"
    /\ IF handling.switch \notin DOMAIN flows
       THEN /\ handling' = NotHandling
            /\ flows' = flows
            /\ last' = Call("handle_flow_stats_reply", handling.switch, "",
                            handling.flows, "OFPST_FLOW",
                            Result("KeyError", <<>>, <<>>, flows))
       ELSE /\ handling' = [handling EXCEPT !.line = "171"]
            /\ flows' = IF flows[handling.switch].isNone
                        THEN [flows EXCEPT ![handling.switch] = ListEntry(<<>>)]
                        ELSE flows
            /\ last' = Call("reply_line_169", handling.switch, "",
                            handling.flows, "OFPST_FLOW",
                            Result("", <<>>, <<>>, flows))
    /\ UNCHANGED <<switches, msg_out, loop>>

\* line 171: the decoded list is appended to the entry and the handler returns
reply_line_171 ==
    /\ handling.active
    /\ handling.line = "171"
    /\ flows' = [flows EXCEPT ![handling.switch] =
                    ListEntry(Append(flows[handling.switch].list,
                                     ListElement(handling.flows)))]
    /\ handling' = NotHandling
    /\ last' = Call("handle_flow_stats_reply", handling.switch, "",
                    handling.flows, "OFPST_FLOW",
                    Result("", <<>>, <<>>, flows))
    /\ UNCHANGED <<switches, msg_out, loop>>

NextThreads ==
    \/ \E e \in StatsReplies : reply_received(e)
    \/ reply_line_169
    \/ reply_line_171
    \/ \E d \in DPIDS \cup {NoDpid} : retrieve_flows(d)

SpecThreads == InitSeeded /\ [][NextThreads]_vars

-----------------------------------------------------------------------------
(* A poll cycle answered in fragments.  A switch answers one statistics    *)
(* request with several replies; each is an event of its own for           *)
(* handle_flow_stats_reply, which does not look at the reply's flags.      *)

\* the most fragments of one cycle
MaxFragments == 2

\* handle_flow_stats_reply applied to a given dict
reply_into(store, event) ==
    LET msg == event.message
        switch_dpid == event.switch
    IN  IF msg.body_type = "OFPST_FLOW"
        THEN IF switch_dpid \notin DOMAIN store
             THEN Result("KeyError", <<>>, <<>>, store)
             ELSE LET entry == IF store[switch_dpid].isNone
                               THEN <<>>
                               ELSE store[switch_dpid].list
                  IN  Result("", <<>>, <<>>,
                             [store EXCEPT ![switch_dpid] =
                                ListEntry(Append(entry,
                                    ListElement(get_flows(msg.body))))])
        ELSE Result("", <<>>, <<>>, store)

\* the handler called for each fragment in turn; an exception ends the call
\* for its fragment only
RECURSIVE handle_fragments(_, _, _)
handle_fragments(store, dpid, fragments) ==
    IF fragments = <<>>
    THEN Result("", <<>>, <<>>, store)
    ELSE LET res == reply_into(store,
                        [message |-> [body_type |-> "OFPST_FLOW",
                                      body |-> Head(fragments)],
                         switch |-> dpid])
             rest == handle_fragments(res.store, dpid, Tail(fragments))
         IN  Result(IF res.error # "" THEN res.error ELSE rest.error,
                    <<>>, <<>>, rest.store)

\* the flows of all the fragments of a cycle
RECURSIVE decoded(_)
decoded(fragments) ==
    IF fragments = <<>> THEN <<>>
    ELSE get_flows(Head(fragments)) \o decoded(Tail(fragments))

\* the fragments of one cycle of a switch are handled, up to the last
reply_cycle(dpid, fragments) ==
    LET res == handle_fragments(flows, dpid, fragments)
    IN  /\ StoreSize(res.store, DOMAIN res.store) <= MaxEntry
        /\ flows' = res.store
        /\ last' = Call("reply_cycle", dpid, "", decoded(fragments),
                        "OFPST_FLOW", res)
        /\ UNCHANGED <<switches, msg_out, loop, handling>>

\* the cycles a switch can answer with: one fragment or more, each a body
Cycles ==
    UNION {[1..k -> SeqUpTo(FlowStats, MaxBody)] : k \in 1..MaxFragments}

NextFragments ==
    \/ \E d \in DPIDS : switch_connect(d)
    \/ \E d \in DPIDS : switch_disconnect(d)
    \/ execute
    \/ \E d \in DPIDS, c \in Cycles : reply_cycle(d, c)

SpecFragments == Init /\ [][NextFragments]_vars

-----------------------------------------------------------------------------
(* Polling to convergence.  Every switch has a flow table that does not    *)
(* change and answers each statistics request sent to it; requests are     *)
(* answered in any order.  The timer tick (execute_as_loop, line 31) and   *)
(* the delivery of the replies are fair.                                   *)

\* the table a switch reports
Table(dpid) ==
    IF dpid = "D1"
    THEN <<[id |-> "F7", match |-> "m", packet_count |-> 0]>>
    ELSE <<[id |-> "F8", match |-> "m", packet_count |-> 0],
           [id |-> "F7", match |-> "m", packet_count |-> 0]>>

\* the queue without its i-th event
Without(queue, i) == SubSeq(queue, 1, i - 1) \o SubSeq(queue, i + 1, Len(queue))

\* the controller sends the i-th event of the outbound queue, a statistics
\* request, to its switch; the switch answers with its table and the reply
\* is handled
switch_replies(dpid) ==
    \E i \in DOMAIN msg_out :
        /\ msg_out[i] = KycoEvent(
               "kytos/of.flow-manager.messages.out.ofpt_stats_request",
               connection(dpid), StatsRequest)
        /\ LET event == [message |-> [body_type |-> "OFPST_FLOW",
                                      body |-> Table(dpid)],
                         switch |-> dpid]
               res == stats_reply(event)
           IN  /\ flows' = res.store
               /\ msg_out' = Without(msg_out, i)
               /\ last' = Call("handle_flow_stats_reply", dpid, "",
                               get_flows(Table(dpid)), "OFPST_FLOW", res)
        /\ UNCHANGED <<switches, loop, handling>>

NextLive ==
    \/ \E d \in DPIDS : switch_connect(d)
    \/ \E d \in DPIDS : switch_disconnect(d)
    \/ execute
    \/ \E d \in DPIDS : request_dump(d)
    \/ \E d \in DPIDS : switch_replies(d)

SpecLive ==
    /\ Init
    /\ [][NextLive]_vars
    /\ WF_vars(execute)
    /\ \A d \in DPIDS : WF_vars(switch_replies(d))

-----------------------------------------------------------------------------
(* The loops interleaved with the controller.                              *)

NextFanout ==
    \/ \E d \in DPIDS : switch_connect(d)
    \/ \E d \in DPIDS : switch_disconnect(d)
    \/ loop_begin("execute", "", <<>>)
    \/ \E f \in Flow : loop_begin("insert_flow", "", <<f>>)
    \/ loop_begin("clear_flows", "", <<>>)
    \/ \E i \in FlowIds : loop_begin("delete_flow", i, <<>>)
    \/ loop_step
    \/ loop_end

SpecFanout == Init /\ [][NextFanout]_vars

-----------------------------------------------------------------------------
(* Properties.                                                             *)

Range(seq) == {seq[i] : i \in DOMAIN seq}

\* the flows of a Python list of the store, those inside its list elements
\* included, in order
RECURSIVE Flatten(_)
Flatten(list) ==
    IF list = <<>> THEN <<>> ELSE Head(list).items \o Flatten(Tail(list))

\* the flows cached for a switch: none when it has no entry or a None entry
CachedFlows(store, dpid) ==
    IF dpid \in DOMAIN store THEN Flatten(store[dpid].list) ELSE <<>>

\* the events a step put on the outbound queue, when it only appended
Emitted(before, after) == SubSeq(after, Len(before) + 1, Len(after))
Appended(before, after) ==
    /\ Len(after) >= Len(before)
    /\ SubSeq(after, 1, Len(before)) = before

\* the flow-mod and statistics-request events for a switch
FlowModEvent(dpid, flow, command) ==
    KycoEvent("kytos/of.flow-manager.messages.out.ofpt_flow_mod",
              connection(dpid), as_flow_mod(flow, command))
StatsRequestEvent(dpid) ==
    KycoEvent("kytos/of.flow-manager.messages.out.ofpt_stats_request",
              connection(dpid), StatsRequest)

\* how many times an event occurs in a sequence
Count(seq, e) == Cardinality({i \in DOMAIN seq : seq[i] = e})

\* the subsequence of the flows with the given id
RECURSIVE WithId(_, _)
WithId(fls, flow_id) ==
    IF fls = <<>> THEN <<>>
    ELSE IF Head(fls).id = flow_id
         THEN <<Head(fls)>> \o WithId(Tail(fls), flow_id)
         ELSE WithId(Tail(fls), flow_id)

FlowReplyHandled ==
    last.op = "handle_flow_stats_reply" /\ last.body_type = "OFPST_FLOW"

\* C1: after a flow-statistics reply for D with flows [f1, f2] is handled, the
\* store entry of D is exactly the sequence [f1, f2] of Flow objects, whatever
\* was handled before.
C1_ReplyReplacesEntry ==
    FlowReplyHandled =>
        /\ last.dpid \in DOMAIN flows
        /\ ~flows[last.dpid].isNone
        /\ flows[last.dpid].list =
              [i \in DOMAIN last.flows |-> FlowElement(last.flows[i])]

\* C2: a switch has a store entry if and only if a flow-statistics reply for
\* it has been handled: there is no entry at the start, handling a
\* flow-statistics reply for D raises nothing and leaves D with an entry (an
\* empty one for an empty body), and no other step adds or removes an entry.
C2_EntryIffPolled ==
    /\ DOMAIN flows = {}
    /\ [][/\ DOMAIN flows' = IF FlowReplyHandled'
                             THEN DOMAIN flows \cup {last'.dpid}
                             ELSE DOMAIN flows
          /\ FlowReplyHandled' => last'.error = ""
          /\ (FlowReplyHandled' /\ last'.flows = <<>>
                /\ last'.dpid \notin DOMAIN flows) =>
                /\ last'.dpid \in DOMAIN flows'
                /\ flows'[last'.dpid] = ListEntry(<<>>)
         ]_vars

C5_InstallLeavesStore ==
    [][last'.op = "insert_flow" => flows' = flows]_vars

\* an install for a known switch has put its ADD on the queue and the switch
\* has no entry
C5_Witness ==
    /\ last.op = "insert_flow"
    /\ last.dpid \in switches
    /\ last.error = ""
    /\ msg_out # <<>>
    /\ msg_out[Len(msg_out)] =
          FlowModEvent(last.dpid, last.flows[1], "OFPFC_ADD")
    /\ last.dpid \notin DOMAIN flows

C7_UnknownSwitchFails ==
    [][(/\ last'.op \in {"dump_flows", "insert_flow", "clear_flows", "delete_flow"}
        /\ last'.dpid \in DPIDS \ switches) =>
          /\ last'.error = "UnknownSwitchError"
          /\ msg_out' = msg_out
          /\ flows' = flows
       ]_vars

\* a dump was requested for a dpid the controller does not know, while it
\* knows another switch
C7_Witness ==
    /\ last.op = "dump_flows"
    /\ last.dpid \in DPIDS \ switches
    /\ last.error = "UnknownSwitchError"
    /\ switches # {}

\* C8: a statistics reply whose body type is not flow-statistics is ignored:
\* the handler raises nothing, no store entry changes and nothing is put on
\* the outbound queue.
C8_OtherStatsIgnored ==
    [][(last'.op = "handle_flow_stats_reply" /\ last'.body_type # "OFPST_FLOW") =>
          /\ last'.error = ""
          /\ flows' = flows
          /\ msg_out' = msg_out
       ]_vars

\* a port-statistics reply was handled for a switch
C8_Witness ==
    /\ last.op = "handle_flow_stats_reply"
    /\ last.body_type = "OFPST_PORT"
    /\ last.error = ""
    /\ last.dpid \in switches

C10_FanOutBestEffort ==
    (/\ ~loop.active
     /\ loop.op # ""
     /\ last.op = loop.op
     /\ last.dpid = NoDpid) =>
        /\ \A d \in Range(loop.order) :
              d \in switches => d \in Range(loop.attempted)
        /\ loop.op \in {"execute", "insert_flow"} =>
              \A i \in 1..Len(loop.attempted) :
                  (i < Len(loop.attempted) \/ last.error = "") =>
                      \E k \in DOMAIN msg_out :
                          msg_out[k].destination = connection(loop.attempted[i])

\* C14: every requestDump for a resolvable switch appends exactly one new
\* statistics request (flow-statistics type, wildcard match, addressed to the
\* switch) to the outbound queue, whatever requests are already on it, and
\* leaves the store as it was: k calls put k requests.
C14_DumpAddsOneRequest ==
    [][(last'.op = "dump_flows" /\ last'.dpid \in switches) =>
          /\ last'.error = ""
          /\ Appended(msg_out, msg_out')
          /\ Len(msg_out') = Len(msg_out) + 1
          /\ LET event_out == msg_out'[Len(msg_out')]
             IN  /\ event_out.destination = connection(last'.dpid)
                 /\ event_out.message.type = "stats_request"
                 /\ event_out.message.body_type = "OFPST_FLOW"
                 /\ event_out.message.match = Match
          /\ flows' = flows
       ]_vars

\* a second dump was requested for a switch while its first request was still
\* on the queue: the queue holds two requests for it
C14_Witness ==
    /\ last.op = "dump_flows"
    /\ last.dpid \in switches
    /\ Count(msg_out, StatsRequestEvent(last.dpid)) = 2

\* C15: enumerate only reads the cache: for a switch it returns the cached
\* entry, or reports the switch absent, without raising, when it has no
\* entry; with no switch it returns the entry of every switch that has one,
\* once each; the store and the outbound queue are as before.
C15_EnumerateReadsCache ==
    [][last'.op = "retrieve_flows" =>
          /\ last'.error = ""
          /\ flows' = flows
          /\ msg_out' = msg_out
          /\ last'.dpid # NoDpid =>
                last'.returned = IF last'.dpid \in DOMAIN flows
                                 THEN <<flows[last'.dpid]>>
                                 ELSE <<>>
          /\ last'.dpid = NoDpid =>
                /\ Len(last'.returned) = Cardinality(DOMAIN flows)
                /\ \A d \in DOMAIN flows :
                      \E i \in DOMAIN last'.returned : last'.returned[i] = flows[d]
       ]_vars

C17_ReplyTouchesOnlyItsSwitch ==
    [][FlowReplyHandled' =>
          \A d \in DPIDS \ {last'.dpid} :
              /\ (d \in DOMAIN flows') <=> (d \in DOMAIN flows)
              /\ d \in DOMAIN flows => flows'[d] = flows[d]
       ]_vars

\* a reply has changed the entry of its switch while another switch has an
\* entry too
C17_Witness ==
    /\ FlowReplyHandled
    /\ last.error = ""
    /\ last.dpid \in DOMAIN flows
    /\ flows[last.dpid].list # <<>>
    /\ DOMAIN flows \ {last.dpid} # {}

\* C18: clear and deleteById leave every store entry as it was, and a step
\* that changes the store is the handling of a statistics reply.
C18_ScansLeaveStore ==
    [][/\ last'.op \in {"clear_flows", "delete_flow"} => flows' = flows
       /\ flows' # flows => last'.op = "handle_flow_stats_reply"
      ]_vars

\* clear was called for a known switch that has flows cached, and they are
\* still cached
C18_Witness ==
    /\ last.op = "clear_flows"
    /\ last.dpid \in switches
    /\ CachedFlows(flows, last.dpid) # <<>>

\* the payload an operation emits: a flow-mod with its command, or a
\* statistics request
PayloadOf(op, message) ==
    CASE op = "insert_flow" ->
            message.type = "flow_mod" /\ message.command = "OFPFC_ADD"
      [] op \in {"clear_flows", "delete_flow"} ->
            message.type = "flow_mod" /\ message.command = "OFPFC_DELETE"
      [] op \in {"execute", "dump_flows"} ->
            message.type = "stats_request"

\* C19: the i-th event an operation puts on the outbound queue is addressed
\* to the connection of the i-th switch it was called for, a switch the
\* controller knows (the designated one, if one was designated), and carries
\* the payload of the operation.
C19_EventsAddressedToTheirSwitch ==
    [][last'.op \in {"insert_flow", "execute", "dump_flows",
                     "clear_flows", "delete_flow"} =>
          LET new == Emitted(msg_out, msg_out')
          IN  /\ Appended(msg_out, msg_out')
              /\ Len(new) <= Len(last'.attempted)
              /\ \A i \in DOMAIN new :
                    /\ new[i].destination = connection(last'.attempted[i])
                    /\ last'.attempted[i] \in switches
                    /\ last'.dpid # NoDpid => last'.attempted[i] = last'.dpid
                    /\ PayloadOf(last'.op, new[i].message)
       ]_vars

\* an insert for all switches has put one event for each of two switches on
\* the queue, in the order it visited them
C19_Witness ==
    /\ last.op = "insert_flow"
    /\ last.dpid = NoDpid
    /\ Len(last.attempted) = 2
    /\ Len(msg_out) = 2
    /\ \A i \in 1..2 : msg_out[i].destination = connection(last.attempted[i])
    /\ msg_out[1].destination # msg_out[2].destination

C12_CacheConverges ==
    \A d \in DPIDS :
        <>[](d \in switches) =>
            <>[](CachedFlows(flows, d) = get_flows(Table(d)))

\* C13: once the last fragment of a cycle of switch D is handled, the flows
\* cached for D are those of the fragments of the cycle, all of them and no
\* other.
C13_FragmentsAccumulated ==
    [][last'.op = "reply_cycle" =>
          CachedFlows(flows', last'.dpid) = last'.flows
      ]_vars

=============================================================================
